---- MODULE Spec2Model ----
(***************************************************************************)
(* A model of package ex (github.com/bold-minds/ex): the Exception value   *)
(* type, its constructor New, its accessors, WithInnerError and Error, and *)
(* the standard library's chain search over it.                            *)
(*                                                                         *)
(* Go values are modelled as follows.                                      *)
(*   - a string is a sequence of one-character strings;                    *)
(*   - an error interface value is one of                                  *)
(*       Nil                         the nil interface,                    *)
(*       [kind |-> "ptr", addr]      a *errors.errorString, compared by    *)
(*                                   address; its text is on the heap      *)
(*                                   errorStrings[addr],                   *)
(*       [kind |-> "ex", code, id, message, innerError]                    *)
(*                                   an Exception stored by value;         *)
(*   - an Exception variable of the program is a slot of locals;           *)
(*   - goroutines holds, for each goroutine that works on the shared       *)
(*     Exception locals[1], the method call it is in.                      *)
(***************************************************************************)
EXTENDS Integers, Sequences, FiniteSets, TLC

VARIABLES errorStrings, locals, last, goroutines

vars == <<errorStrings, locals, last, goroutines>>

\* ---------------------------------------------------------------- bounds
\* Exception variables the modelled program declares; every call that
\* returns an Exception stores it in a new variable.
MaxLocals == 2
\* errors.New allocations (by the program and by New) in one run.
MaxHeap == 2
\* ExType values -MaxCode..MaxCode are rendered by String.
MaxCode == 60
\* Exception variables of the program that derives several values from one
\* base value.
MaxSiblingLocals == 3
\* Goroutines that call methods on one shared Exception.
MaxGoroutines == 2

\* ------------------------------------------------------ program constants
\* type ExType int: the zero value of the type.
ExTypeZero == 0

\* const ( ExTypeIncorrectData ExType = iota + 1; ... )
ExTypeIncorrectData == 1
ExTypeLoginRequired == 2
ExTypePermissionDenied == 3
ExTypeApplicationFailure == 4

\* ---------------------------------------------------------------- inputs
\* Category codes: a named constant and a value outside the enumeration.
Codes == {ExTypeApplicationFailure, 999}
\* Ids: negative and zero.
Ids == {-1, 0}
\* Messages: empty and non-empty.
Messages == {<< >>, <<"m">>}
\* Texts of plain errors made with errors.New: empty and non-empty.
Texts == {<< >>, <<"d", "b">>}

\* ---------------------------------------------------------- error values
Nil == [kind |-> "nil"]

Ptr(addr) == [kind |-> "ptr", addr |-> addr]

IsNil(err) == err.kind = "nil"

IsException(err) == err.kind = "ex"

\* The *errorString values allocated so far.
Pointers == {Ptr(a) : a \in 1..Len(errorStrings)}

\* ------------------------------------------------------------ package ex

\* A slip that stores the code in the id field and the id in the code field.
NewSwapsCodeAndID(code, id, message) ==
    [kind |-> "ex", code |-> id, id |-> code, message |-> message,
     innerError |-> Ptr(Len(errorStrings) + 1)]

\* func New(code ExType, id int, message string) Exception
\* The inner error is a freshly allocated errors.New(""): its address is the
\* next free heap cell, which the calling action fills with the empty text.
New(code, id, message) ==
    [kind |-> "ex", code |-> code, id |-> id, message |-> message,
     innerError |-> Ptr(Len(errorStrings) + 1)]

\* func (e Exception) Code() ExType
Code(e) == e.code

\* func (e Exception) ID() int
ID(e) == e.id

\* func (e Exception) Message() string
Message(e) == e.message

\* A slip that returns nil instead of the stored cause.
InnerErrorReturnsNil(e) == Nil

\* A slip that returns the receiver itself as its own cause.
InnerErrorReturnsReceiver(e) == e

\* func (e Exception) InnerError() error
InnerError(e) == e.innerError

\* A pointer-receiver slip: the assignment lands in the caller's variable too.
WithInnerErrorPointerReceiver(e, err) ==
    [self |-> [e EXCEPT !.innerError = err],
     result |-> [e EXCEPT !.innerError = err]]

\* A slip that returns the receiver without storing the cause.
WithInnerErrorDropsCause(e, err) ==
    [self |-> e, result |-> e]

\* A slip that rebuilds the result and loses the id.
WithInnerErrorLosesID(e, err) ==
    [self |-> e, result |-> [e EXCEPT !.innerError = err, !.id = 0]]

\* A slip that stores a rebuilt copy of an Exception cause, without the
\* cause's own cause.
WithInnerErrorRebuildsCause(e, err) ==
    [self |-> e,
     result |-> [e EXCEPT !.innerError =
                    IF IsException(err) THEN [err EXCEPT !.innerError = Nil]
                    ELSE err]]

\* func (e Exception) WithInnerError(err error) Exception
\* A value receiver: the method works on a copy e of the caller's value,
\* assigns the copy's innerError and returns the copy.  self is the caller's
\* value after the call, result the returned value.
WithInnerError(e, err) ==
    [self |-> e, result |-> [e EXCEPT !.innerError = err]]

\* The decimal digit d as a character.
DigitChar(d) == <<"0", "1", "2", "3", "4", "5", "6", "7", "8", "9">>[d + 1]

\* The decimal digits of n >= 0, most significant first.
RECURSIVE Digits(_)
Digits(n) ==
    IF n < 10 THEN <<DigitChar(n)>>
    ELSE Digits(n \div 10) \o <<DigitChar(n % 10)>>

\* The decimal rendering of an integer (%d).
Itoa(n) == IF n < 0 THEN <<"-">> \o Digits(-n) ELSE Digits(n)

\* The text "<nil>" that fmt prints for a nil operand of %v.
nilAngleString == <<"<", "n", "i", "l", ">">>

RECURSIVE Error(_)
\* err.Error() through the error interface, err not nil: the text of an
\* *errors.errorString, or Exception.Error for an Exception.
ErrorOf(err) ==
    IF IsException(err) THEN Error(err) ELSE errorStrings[err.addr]

\* fmt's rendering of an error operand under %+v: "<nil>" for the nil
\* interface, otherwise the operand's own Error().
FmtPlusV(err) ==
    IF IsNil(err) THEN nilAngleString ELSE ErrorOf(err)

\* What a call that panics leaves in place of a string: no string, as its one
\* element is not a character.
Panic == <<"panic: runtime error: invalid memory address or nil pointer dereference">>

\* A slip that calls e.innerError.Error() without a nil check: a nil cause
\* is dereferenced and the call panics.
ErrorDereferencesNilCause(e) ==
    IF IsNil(e.innerError) THEN Panic
    ELSE e.message \o <<" ">> \o ErrorOf(e.innerError)

\* A slip that prints the id in front of the message.
ErrorPrintsID(e) ==
    Itoa(e.id) \o <<" ">> \o e.message \o <<" ">> \o FmtPlusV(e.innerError)

\* A slip that puts the cause's text in front of the message.
ErrorCauseFirst(e) == FmtPlusV(e.innerError) \o <<" ">> \o e.message

\* func (e Exception) Error() string
\* fmt.Sprintf("%s %+v", e.message, e.innerError)
Error(e) == e.message \o <<" ">> \o FmtPlusV(e.innerError)

\* ------------------------------------- chain search (errors.Is, errors.As)

\* Exception (ex.go) declares Code, ID, Message, InnerError, WithInnerError
\* and Error: it has no Unwrap and no Is method, and neither has
\* *errors.errorString.  The standard library's chain functions therefore
\* see every value of the program as a chain of one link.

\* A slip that gives Exception an Is method matching on the category alone.
isByCode(err, target) ==
    \/ err = target
    \/ /\ IsException(err)
       /\ IsException(target)
       /\ err.code = target.code

\* The loop of errors.Is(err, target), err and target not nil: it compares
\* err with target by interface equality (dynamic type and value; for an
\* Exception all four fields, for a *errorString the address), finds no Is
\* method, finds no Unwrap method and returns false.
is(err, target) == err = target

ErrorsIs(err, target) ==
    IF IsNil(err) \/ IsNil(target) THEN err = target ELSE is(err, target)

\* errors.Unwrap(err): err.Unwrap() when err's type has the method, nil
\* otherwise; no type of the program has it.
ErrorsUnwrap(err) == Nil

\* The non-nil values reachable from err by following cause links one or
\* more times (read off the stored fields).
RECURSIVE Links(_)
Links(err) ==
    IF ~IsException(err) \/ IsNil(err.innerError) THEN {}
    ELSE {err.innerError} \cup Links(err.innerError)

\* var target ex.Exception: the zero value of the type.
ZeroException ==
    [kind |-> "ex", code |-> 0, id |-> 0, message |-> << >>, innerError |-> Nil]

\* The loop of errors.As(err, &target) with target of type Exception, err
\* not nil: it assigns err when its dynamic type is Exception; otherwise it
\* finds no As method, finds no Unwrap method and returns false.
\* ok is the returned bool, target the variable after the call.
as(err) ==
    IF IsException(err) THEN [ok |-> TRUE, target |-> err]
    ELSE [ok |-> FALSE, target |-> ZeroException]

ErrorsAs(err) ==
    IF IsNil(err) THEN [ok |-> FALSE, target |-> ZeroException] ELSE as(err)

\* ------------------------------------------------------- ExType.String()

UnknownOpen == <<"U", "n", "k", "n", "o", "w", "n", "(">>

\* A slip that looks the name up from 0, as if the constants were iota
\* and not iota + 1.
StringNamesFromZero(t) ==
    CASE t = 0 -> <<"I", "n", "c", "o", "r", "r", "e", "c", "t",
                    "D", "a", "t", "a">>
      [] t = 1 -> <<"L", "o", "g", "i", "n",
                    "R", "e", "q", "u", "i", "r", "e", "d">>
      [] t = 2 -> <<"P", "e", "r", "m", "i", "s", "s", "i", "o", "n",
                    "D", "e", "n", "i", "e", "d">>
      [] t = 3 -> <<"A", "p", "p", "l", "i", "c", "a", "t", "i", "o", "n",
                    "F", "a", "i", "l", "u", "r", "e">>
      [] OTHER -> UnknownOpen \o Itoa(t) \o <<")">>

\* A slip that renders an unknown value without its sign.
StringDropsSign(t) ==
    CASE t = 1 -> <<"I", "n", "c", "o", "r", "r", "e", "c", "t",
                    "D", "a", "t", "a">>
      [] t = 2 -> <<"L", "o", "g", "i", "n",
                    "R", "e", "q", "u", "i", "r", "e", "d">>
      [] t = 3 -> <<"P", "e", "r", "m", "i", "s", "s", "i", "o", "n",
                    "D", "e", "n", "i", "e", "d">>
      [] t = 4 -> <<"A", "p", "p", "l", "i", "c", "a", "t", "i", "o", "n",
                    "F", "a", "i", "l", "u", "r", "e">>
      [] OTHER -> UnknownOpen \o Digits(IF t < 0 THEN -t ELSE t) \o <<")">>

\* func (t ExType) String() string: the fixed name of a named category,
\* "Unknown(<n>)" for any other value.  The README documents it and the
\* tests call it; ex.go does not declare it, so it is modelled from its
\* documented contract.
String(t) ==
    CASE t = ExTypeIncorrectData ->
            <<"I", "n", "c", "o", "r", "r", "e", "c", "t",
              "D", "a", "t", "a">>
      [] t = ExTypeLoginRequired ->
            <<"L", "o", "g", "i", "n",
              "R", "e", "q", "u", "i", "r", "e", "d">>
      [] t = ExTypePermissionDenied ->
            <<"P", "e", "r", "m", "i", "s", "s", "i", "o", "n",
              "D", "e", "n", "i", "e", "d">>
      [] t = ExTypeApplicationFailure ->
            <<"A", "p", "p", "l", "i", "c", "a", "t", "i", "o", "n",
              "F", "a", "i", "l", "u", "r", "e">>
      [] OTHER -> UnknownOpen \o Itoa(t) \o <<")">>

\* ------------------------------------------------------------- the state

\* The record of the last call: the operation, the receiver before the
\* call, the argument, the returned value and the receiver after the call.
NoCall == [op |-> "none", self |-> Nil, arg |-> Nil, ret |-> Nil, after |-> Nil]

Goroutines == 1..MaxGoroutines

\* A goroutine that has not called anything yet.
Idle == [pc |-> "idle", op |-> "none", arg |-> Nil, e |-> Nil, ret |-> Nil]

Init ==
    /\ errorStrings = << >>
    /\ locals = << >>
    /\ last = NoCall
    /\ goroutines = [g \in Goroutines |-> Idle]

\* err := errors.New(text)
ErrorsNewCall ==
    \E t \in Texts :
        /\ Len(errorStrings) < MaxHeap
        /\ errorStrings' = Append(errorStrings, t)
        /\ last' = [op |-> "errors.New", self |-> Nil, arg |-> Nil,
                    ret |-> Ptr(Len(errorStrings) + 1), after |-> Nil]
        /\ UNCHANGED <<locals, goroutines>>

\* e := ex.New(code, id, message), in a program of at most limit Exception
\* variables.
NewStep(limit) ==
    \E c \in Codes, i \in Ids, m \in Messages :
        /\ Len(locals) < limit
        /\ Len(errorStrings) < MaxHeap
        /\ errorStrings' = Append(errorStrings, << >>)
        /\ locals' = Append(locals, New(c, i, m))
        /\ last' = [op |-> "New", self |-> Nil,
                    arg |-> [code |-> c, id |-> i, message |-> m],
                    ret |-> New(c, i, m), after |-> Nil]
        /\ UNCHANGED goroutines

\* e := ex.New(code, id, message)
NewCall == NewStep(MaxLocals)

\* The error values the program can pass: nil, a plain error, or the value
\* of one of its Exception variables.
Errors == {Nil} \cup Pointers \cup {locals[j] : j \in 1..Len(locals)}

\* b := locals[r].WithInnerError(x), in a program of at most limit Exception
\* variables.
WithInnerErrorStep(limit) ==
    \E r \in 1..Len(locals), x \in Errors :
        /\ Len(locals) < limit
        /\ LET call == WithInnerError(locals[r], x) IN
            /\ locals' = Append([locals EXCEPT ![r] = call.self], call.result)
            /\ last' = [op |-> "WithInnerError", self |-> locals[r], arg |-> x,
                        ret |-> call.result, after |-> call.self]
        /\ UNCHANGED <<errorStrings, goroutines>>

\* b := locals[r].WithInnerError(x)
WithInnerErrorCall == WithInnerErrorStep(MaxLocals)

\* b := locals[r].WithInnerError(x).WithInnerError(y)
\* The second call's receiver is the value the first call returns.
WithInnerErrorTwiceCall ==
    \E r \in 1..Len(locals), x \in Errors, y \in Errors :
        /\ Len(locals) < MaxLocals
        /\ LET first == WithInnerError(locals[r], x)
               second == WithInnerError(first.result, y) IN
            /\ locals' = Append([locals EXCEPT ![r] = first.self],
                                second.result)
            /\ last' = [op |-> "WithInnerError.WithInnerError",
                        self |-> locals[r],
                        arg |-> [first |-> x, second |-> y],
                        ret |-> second.result, after |-> first.self]
        /\ UNCHANGED <<errorStrings, goroutines>>

\* s := locals[r].Error()
ErrorCall ==
    \E r \in 1..Len(locals) :
        /\ last' = [op |-> "Error", self |-> locals[r], arg |-> Nil,
                    ret |-> Error(locals[r]), after |-> locals[r]]
        /\ UNCHANGED <<errorStrings, locals, goroutines>>

\* ok := errors.Is(locals[r], t)
ErrorsIsCall ==
    \E r \in 1..Len(locals), t \in Errors :
        /\ last' = [op |-> "errors.Is", self |-> locals[r], arg |-> t,
                    ret |-> ErrorsIs(locals[r], t), after |-> locals[r]]
        /\ UNCHANGED <<errorStrings, locals, goroutines>>

\* var target ex.Exception; ok := errors.As(err, &target)
ErrorsAsCall ==
    \E err \in Errors :
        /\ last' = [op |-> "errors.As", self |-> err, arg |-> Nil,
                    ret |-> ErrorsAs(err), after |-> err]
        /\ UNCHANGED <<errorStrings, locals, goroutines>>

\* c := locals[r].Code()
CodeCall ==
    \E r \in 1..Len(locals) :
        /\ last' = [op |-> "Code", self |-> locals[r], arg |-> Nil,
                    ret |-> Code(locals[r]), after |-> locals[r]]
        /\ UNCHANGED <<errorStrings, locals, goroutines>>

\* i := locals[r].ID()
IDCall ==
    \E r \in 1..Len(locals) :
        /\ last' = [op |-> "ID", self |-> locals[r], arg |-> Nil,
                    ret |-> ID(locals[r]), after |-> locals[r]]
        /\ UNCHANGED <<errorStrings, locals, goroutines>>

\* m := locals[r].Message()
MessageCall ==
    \E r \in 1..Len(locals) :
        /\ last' = [op |-> "Message", self |-> locals[r], arg |-> Nil,
                    ret |-> Message(locals[r]), after |-> locals[r]]
        /\ UNCHANGED <<errorStrings, locals, goroutines>>

\* err := locals[r].InnerError()
InnerErrorCall ==
    \E r \in 1..Len(locals) :
        /\ last' = [op |-> "InnerError", self |-> locals[r], arg |-> Nil,
                    ret |-> InnerError(locals[r]), after |-> locals[r]]
        /\ UNCHANGED <<errorStrings, locals, goroutines>>

\* The ExType values the program renders: a range around zero that holds
\* the four named constants, the values the tests and the README use, and
\* the codes of the program's Exceptions.
StringInputs ==
    (-MaxCode..MaxCode) \cup {42, 999}
        \cup {Code(locals[j]) : j \in 1..Len(locals)}

\* s := ex.ExType(n).String()
StringCall ==
    \E n \in StringInputs :
        /\ last' = [op |-> "String", self |-> Nil, arg |-> n,
                    ret |-> String(n), after |-> Nil]
        /\ UNCHANGED <<errorStrings, locals, goroutines>>

Next ==
    \/ ErrorsNewCall
    \/ NewCall
    \/ WithInnerErrorCall
    \/ ErrorCall
    \/ ErrorsIsCall
    \/ ErrorsAsCall
    \/ WithInnerErrorTwiceCall
    \/ CodeCall
    \/ IDCall
    \/ MessageCall
    \/ InnerErrorCall

Spec == Init /\ [][Next]_vars

\* The program that constructs values and calls the accessors and Error
\* on them.
NextAccessors ==
    \/ ErrorsNewCall
    \/ NewCall
    \/ WithInnerErrorCall
    \/ CodeCall
    \/ IDCall
    \/ MessageCall
    \/ InnerErrorCall
    \/ ErrorCall

SpecAccessors == Init /\ [][NextAccessors]_vars

\* The program that constructs Exceptions and renders category codes.
NextString ==
    \/ NewCall
    \/ StringCall

SpecString == Init /\ [][NextString]_vars

\* e := ex.New(code, id, message), in the program deriving siblings.
NewSiblingCall == NewStep(MaxSiblingLocals)

\* b := locals[r].WithInnerError(x), in the program deriving siblings.
WithInnerErrorSiblingCall == WithInnerErrorStep(MaxSiblingLocals)

\* The program that constructs values and derives several from one base.
NextSiblings ==
    \/ ErrorsNewCall
    \/ NewSiblingCall
    \/ WithInnerErrorSiblingCall

SpecSiblings == Init /\ [][NextSiblings]_vars

\* The program that constructs values, derives several from one base and
\* renders them.
NextRender ==
    \/ ErrorsNewCall
    \/ NewSiblingCall
    \/ WithInnerErrorSiblingCall
    \/ ErrorCall

SpecRender == Init /\ [][NextRender]_vars

\* ------------------------------------------- goroutines on a shared value

\* shared := ex.New(code, id, message): the one Exception variable that the
\* goroutines share is locals[1].
NewSharedCall == NewStep(1)

\* The methods that only read the receiver.
Readers == {"Code", "ID", "Message", "InnerError", "Error"}

\* What the reading method op returns on the receiver copy e.
Read(op, e) ==
    CASE op = "Code" -> Code(e)
      [] op = "ID" -> ID(e)
      [] op = "Message" -> Message(e)
      [] op = "InnerError" -> InnerError(e)
      [] op = "Error" -> Error(e)

\* Goroutine g calls a method of the shared Exception.  All methods have a
\* value receiver (func (e Exception) ...): the call copies the shared
\* variable into the method's own e.
ReceiverCopy(g) ==
    /\ Len(locals) >= 1
    /\ goroutines[g].pc = "idle"
    /\ \E op \in Readers \cup {"WithInnerError"} :
       \E x \in (IF op = "WithInnerError" THEN Errors ELSE {Nil}) :
           goroutines' = [goroutines EXCEPT ![g] =
               [pc |-> "called", op |-> op, arg |-> x,
                e |-> locals[1], ret |-> Nil]]
    /\ UNCHANGED <<errorStrings, locals, last>>

\* The body of a reading method runs on the copy e and returns.
ReadReturn(g) ==
    /\ goroutines[g].pc = "called"
    /\ goroutines[g].op \in Readers
    /\ goroutines' = [goroutines EXCEPT
           ![g].pc = "done",
           ![g].ret = Read(goroutines[g].op, goroutines[g].e)]
    /\ UNCHANGED <<errorStrings, locals, last>>

\* The body of WithInnerError runs on the copy e: e.innerError = err;
\* return e.  What the call leaves in the caller's variable (self) is what
\* the shared variable holds afterwards.
WithInnerErrorReturn(g) ==
    /\ goroutines[g].pc = "called"
    /\ goroutines[g].op = "WithInnerError"
    /\ LET call == WithInnerError(goroutines[g].e, goroutines[g].arg) IN
        /\ goroutines' = [goroutines EXCEPT
               ![g].pc = "done", ![g].ret = call.result]
        /\ locals' = [locals EXCEPT ![1] = call.self]
    /\ UNCHANGED <<errorStrings, last>>

ReceiverCopyStep == \E g \in Goroutines : ReceiverCopy(g)

ReadReturnStep == \E g \in Goroutines : ReadReturn(g)

WithInnerErrorReturnStep == \E g \in Goroutines : WithInnerErrorReturn(g)

\* The program that constructs one Exception and lets goroutines call its
\* methods in any interleaving.
NextShared ==
    \/ NewSharedCall
    \/ ReceiverCopyStep
    \/ ReadReturnStep
    \/ WithInnerErrorReturnStep

SpecShared == Init /\ [][NextShared]_vars

\* ---------------------------------------------------- walking the chain

\* The goroutine that walks chains.
Walker == 1

\* current := error(locals[r]).  e is current, ret the value the walk
\* started from.
WalkStart ==
    \E r \in 1..Len(locals) :
        /\ goroutines[Walker].pc = "idle"
        /\ goroutines' = [goroutines EXCEPT ![Walker] =
               [pc |-> "walking", op |-> "walk", arg |-> Nil,
                e |-> locals[r], ret |-> locals[r]]]
        /\ UNCHANGED <<errorStrings, locals, last>>

\* One iteration of for current != nil { _ = current.Error();
\* current = errors.Unwrap(current) }: the text is discarded, current
\* becomes what errors.Unwrap gives, and the loop ends when that is nil.
WalkStep ==
    /\ goroutines[Walker].pc = "walking"
    /\ LET current == goroutines[Walker].e
           next == ErrorsUnwrap(current) IN
        goroutines' = [goroutines EXCEPT ![Walker] =
            IF IsNil(next)
            THEN [@ EXCEPT !.pc = "ended", !.e = next]
            ELSE [@ EXCEPT !.e = next]]
    /\ UNCHANGED <<errorStrings, locals, last>>

\* The program that constructs values and walks their chains.
NextWalk ==
    \/ ErrorsNewCall
    \/ NewCall
    \/ WithInnerErrorCall
    \/ WalkStart
    \/ WalkStep

\* The walking goroutine is scheduled as long as its loop has work to do.
SpecWalk == Init /\ [][NextWalk]_vars /\ WF_vars(WalkStep)

\* ------------------------------------------------------------ the claims

\* The separator the documentation and the tests expect between a message
\* and its cause's text.
ColonSpace == <<":", " ">>

\* The Exception variables' values.
Exceptions == {locals[j] : j \in 1..Len(locals)}

\* C1: an Exception whose cause is present and has a non-empty Error() text
\* renders as its message, then ": ", then the cause's Error() text.
C1_ErrorIsMessageColonCause ==
    (/\ last.op = "Error"
     /\ ~IsNil(InnerError(last.self))
     /\ ErrorOf(InnerError(last.self)) # << >>)
        => last.ret = Message(last.self) \o ColonSpace
                        \o ErrorOf(InnerError(last.self))

\* C2: the value New returns renders as exactly its message.
C2_FreshErrorIsMessage ==
    last.op = "New" => Error(last.ret) = last.arg.message

\* C3: the value New returns carries the code, the id and the message it
\* was given, whatever they are.
C3_NewKeepsCodeIDMessage ==
    last.op = "New" =>
        /\ Code(last.ret) = last.arg.code
        /\ ID(last.ret) = last.arg.id
        /\ Message(last.ret) = last.arg.message

\* New was called with an out-of-enum code, a non-positive id and the empty
\* message.
C3_Witness ==
    /\ last.op = "New"
    /\ last.arg.code \notin ExTypeIncorrectData..ExTypeApplicationFailure
    /\ last.arg.id <= 0
    /\ last.arg.message = << >>
    /\ Code(last.ret) = 999

\* C4: the value New returns has no cause: InnerError() is nil, and so is
\* what unwrapping it gives.
C4_FreshHasNoCause ==
    last.op = "New" =>
        /\ InnerError(last.ret) = Nil
        /\ ErrorsUnwrap(last.ret) = Nil

\* C5: unwrapping an Exception gives the stored cause as it is: the same
\* value as InnerError(), the error passed to the last WithInnerError, and
\* nil when no cause was attached.
C5_UnwrapIsCause ==
    /\ \A e \in Exceptions : ErrorsUnwrap(e) = InnerError(e)
    /\ last.op = "WithInnerError" => ErrorsUnwrap(last.ret) = last.arg
    /\ last.op = "New" => ErrorsUnwrap(last.ret) = Nil

\* C6: chain search finds every link of the cause chain: once x is attached
\* to an Exception, errors.Is finds x and every link below x from the
\* result, and errors.Is is true for every target that is a link of its
\* first argument.
C6_IsFindsEveryLink ==
    /\ (last.op = "WithInnerError" /\ ~IsNil(last.arg)) =>
          /\ ErrorsIs(last.ret, last.arg)
          /\ \A t \in Links(last.arg) : ErrorsIs(last.ret, t)
    /\ (last.op = "errors.Is" /\ last.arg \in Links(last.self)) =>
          last.ret = TRUE

\* C7: WithInnerError does not mutate its receiver: after
\* b := a.WithInnerError(x), a has the cause and the rendering it had
\* before, and b's cause is x.
C7_ReceiverUnchanged ==
    last.op = "WithInnerError" =>
        /\ last.after = last.self
        /\ InnerError(last.after) = InnerError(last.self)
        /\ Error(last.after) = Error(last.self)
        /\ InnerError(last.ret) = last.arg

\* WithInnerError attached a cause that differs from the receiver's.
C7_Witness ==
    /\ last.op = "WithInnerError"
    /\ last.arg # InnerError(last.self)
    /\ InnerError(last.ret) = last.arg
    /\ InnerError(last.after) # last.arg

\* C8: b := a.WithInnerError(x) is a except for its cause, for every x,
\* nil included.
C8_WithInnerErrorKeepsFields ==
    last.op = "WithInnerError" =>
        /\ Code(last.ret) = Code(last.self)
        /\ ID(last.ret) = ID(last.self)
        /\ Message(last.ret) = Message(last.self)
        /\ InnerError(last.ret) = last.arg

\* WithInnerError(nil) was applied to a receiver with a cause, a non-zero
\* id and a non-empty message.
C8_Witness ==
    /\ last.op = "WithInnerError"
    /\ IsNil(last.arg)
    /\ ~IsNil(InnerError(last.self))
    /\ ID(last.self) # 0
    /\ Message(last.self) # << >>
    /\ IsNil(InnerError(last.ret))

\* C9: attaching nil clears the cause and the result renders as the bare
\* message.
C9_NilCauseRendersMessage ==
    (last.op = "WithInnerError" /\ IsNil(last.arg)) =>
        /\ InnerError(last.ret) = Nil
        /\ Error(last.ret) = Message(last.self)

\* C10: a cause that is present but whose Error() text is empty leaves the
\* rendering equal to the message.
C10_EmptyCauseRendersMessage ==
    (/\ last.op = "Error"
     /\ ~IsNil(InnerError(last.self))
     /\ ErrorOf(InnerError(last.self)) = << >>)
        => last.ret = Message(last.self)

\* C11: errors.As with a target of type Exception, applied to an Exception
\* outer, succeeds and yields outer itself with outer's code and id, also
\* when outer's cause is an Exception.
C11_AsYieldsOuter ==
    /\ (last.op = "errors.As" /\ IsException(last.self)) =>
          /\ last.ret.ok
          /\ last.ret.target = last.self
          /\ Code(last.ret.target) = Code(last.self)
          /\ ID(last.ret.target) = ID(last.self)
    /\ (last.op = "WithInnerError" /\ IsException(last.arg)) =>
          /\ ErrorsAs(last.ret).ok
          /\ ErrorsAs(last.ret).target = last.ret
          /\ Code(ErrorsAs(last.ret).target) = Code(last.self)
          /\ ID(ErrorsAs(last.ret).target) = ID(last.self)

\* errors.As was applied to an Exception whose cause is an Exception too,
\* and returned the outer one, not the cause.
C11_Witness ==
    /\ last.op = "errors.As"
    /\ IsException(last.self)
    /\ IsException(InnerError(last.self))
    /\ last.ret.ok
    /\ last.ret.target = last.self
    /\ last.ret.target # InnerError(last.self)

\* Whether two Exceptions have the same code, id and message.
SameTriple(a, b) ==
    /\ Code(a) = Code(b)
    /\ ID(a) = ID(b)
    /\ Message(a) = Message(b)

\* C12: two Exceptions constructed independently by New with the same code,
\* id and message are equal, and errors.Is finds the one as target in a
\* chain that holds the other.  (The first variable always holds a value
\* returned by New: WithInnerError needs a receiver.)
C12_IndependentNewEqual ==
    (/\ last.op = "New"
     /\ Len(locals) >= 2
     /\ SameTriple(locals[1], last.ret))
        => /\ locals[1] = last.ret
           /\ \A b \in Exceptions :
                 ErrorsIs(WithInnerError(b, locals[1]).result, last.ret)

\* C13: errors.Is is false for a target that equals no link of the chain:
\* a plain error that was never attached, or an Exception that differs from
\* every Exception of the chain.
C13_IsRejectsNonLinks ==
    /\ (/\ last.op = "errors.Is"
        /\ ~IsNil(last.arg)
        /\ last.arg # last.self
        /\ last.arg \notin Links(last.self)) => last.ret = FALSE
    /\ last.op = "WithInnerError" =>
          \A t \in Errors :
              (/\ ~IsNil(t)
               /\ t # last.ret
               /\ t # last.arg
               /\ t \notin Links(last.arg)) => ~ErrorsIs(last.ret, t)

\* errors.Is was asked for an Exception whose id differs from the id of the
\* one Exception of the chain, and answered false.
C13_Witness ==
    /\ last.op = "errors.Is"
    /\ IsException(last.arg)
    /\ ~IsException(InnerError(last.self))
    /\ ID(last.arg) # ID(last.self)
    /\ Code(last.arg) = Code(last.self)
    /\ last.ret = FALSE

\* The links of err's chain, err itself included.
Chain(err) == {err} \cup Links(err)

\* C14 as claimed: errors.Is matches a chain link against a target with the
\* same code, id and message even when their causes differ.
C14_SameTripleMatches ==
    (/\ last.op = "errors.Is"
     /\ IsException(last.arg)
     /\ \E l \in Chain(last.self) :
           IsException(l) /\ SameTriple(l, last.arg)) => last.ret = TRUE

\* C14 amended: Exceptions are compared over all four fields.  errors.Is
\* answers true for an Exception target that has the code, id, message and
\* cause of its first argument, and answers true only when some link of
\* the chain has the target's code, id and message and the target's cause;
\* a value with the same three fields and another cause does not match.
C14_AllFourFieldsMatch ==
    (last.op = "errors.Is" /\ IsException(last.arg)) =>
        /\ (/\ SameTriple(last.self, last.arg)
            /\ InnerError(last.self) = InnerError(last.arg))
              => last.ret = TRUE
        /\ last.ret = TRUE =>
              \E l \in Chain(last.self) :
                  /\ IsException(l)
                  /\ SameTriple(l, last.arg)
                  /\ InnerError(l) = InnerError(last.arg)
        /\ (/\ SameTriple(last.self, last.arg)
            /\ InnerError(last.self) # InnerError(last.arg)
            /\ ~IsException(InnerError(last.self)))
              => last.ret = FALSE

\* errors.Is was asked for a target with the code, id and message of its
\* first argument and another cause, and answered false.
C14_Witness ==
    /\ last.op = "errors.Is"
    /\ IsException(last.arg)
    /\ SameTriple(last.self, last.arg)
    /\ InnerError(last.self) # InnerError(last.arg)
    /\ ~IsException(InnerError(last.self))
    /\ last.ret = FALSE

\* C15: String() maps each of the four named categories to its fixed name.
C15_StringNamesCategories ==
    last.op = "String" =>
        /\ last.arg = ExTypeIncorrectData =>
              last.ret = <<"I", "n", "c", "o", "r", "r", "e", "c", "t",
                           "D", "a", "t", "a">>
        /\ last.arg = ExTypeLoginRequired =>
              last.ret = <<"L", "o", "g", "i", "n",
                           "R", "e", "q", "u", "i", "r", "e", "d">>
        /\ last.arg = ExTypePermissionDenied =>
              last.ret = <<"P", "e", "r", "m", "i", "s", "s", "i", "o", "n",
                           "D", "e", "n", "i", "e", "d">>
        /\ last.arg = ExTypeApplicationFailure =>
              last.ret = <<"A", "p", "p", "l", "i", "c", "a", "t", "i", "o",
                           "n", "F", "a", "i", "l", "u", "r", "e">>

\* String() was called on the code of an Exception made with a named
\* category.
C15_Witness ==
    /\ last.op = "String"
    /\ last.arg = ExTypeApplicationFailure
    /\ \E e \in Exceptions : Code(e) = last.arg
    /\ Len(last.ret) = 18

\* The value of a decimal digit character, -1 for any other character.
DigitValue(ch) ==
    CASE ch = "0" -> 0 [] ch = "1" -> 1 [] ch = "2" -> 2 [] ch = "3" -> 3
      [] ch = "4" -> 4 [] ch = "5" -> 5 [] ch = "6" -> 6 [] ch = "7" -> 7
      [] ch = "8" -> 8 [] ch = "9" -> 9 [] OTHER -> -1

\* The number a sequence of decimal digits denotes.
RECURSIVE DigitsValue(_)
DigitsValue(ds) ==
    IF Len(ds) = 0 THEN 0
    ELSE 10 * DigitsValue(SubSeq(ds, 1, Len(ds) - 1))
            + DigitValue(ds[Len(ds)])

\* Whether ds is the canonical digit string of a natural number: digits
\* only, at least one, no leading zero.
IsDigits(ds) ==
    /\ Len(ds) >= 1
    /\ \A k \in 1..Len(ds) : DigitValue(ds[k]) >= 0
    /\ (Len(ds) > 1 => ds[1] # "0")

\* Whether text is the canonical decimal rendering of the integer n.
IsDecimalOf(text, n) ==
    IF n < 0
    THEN /\ Len(text) >= 2
         /\ text[1] = "-"
         /\ IsDigits(Tail(text))
         /\ DigitsValue(Tail(text)) = -n
    ELSE /\ IsDigits(text)
         /\ DigitsValue(text) = n

\* C16: for every n that is not one of the four named categories, zero and
\* negative values included, ExType(n).String() is "Unknown(" then the
\* decimal rendering of n then ")"; New accepts such a code unchanged.
C16_UnknownRendersValue ==
    /\ (/\ last.op = "String"
        /\ last.arg \notin {ExTypeIncorrectData, ExTypeLoginRequired,
                            ExTypePermissionDenied, ExTypeApplicationFailure})
          => /\ Len(last.ret) >= 10
             /\ SubSeq(last.ret, 1, 8) = <<"U", "n", "k", "n", "o", "w", "n", "(">>
             /\ last.ret[Len(last.ret)] = ")"
             /\ IsDecimalOf(SubSeq(last.ret, 9, Len(last.ret) - 1), last.arg)
             /\ last.arg = 999 =>
                   last.ret = <<"U", "n", "k", "n", "o", "w", "n", "(",
                                "9", "9", "9", ")">>
    /\ last.op = "New" => Code(last.ret) = last.arg.code

\* String() was called on the out-of-enum code of an Exception.
C16_Witness ==
    /\ last.op = "String"
    /\ last.arg = 999
    /\ \E e \in Exceptions : Code(e) = 999
    /\ last.ret = <<"U", "n", "k", "n", "o", "w", "n", "(", "9", "9", "9", ")">>

\* C17: chained WithInnerError calls keep only the last cause: the result of
\* a.WithInnerError(x).WithInnerError(y) has cause y, is the value that
\* a.WithInnerError(y) gives, whatever x was, and renders as that value does.
C17_ChainKeepsLastCause ==
    last.op = "WithInnerError.WithInnerError" =>
        /\ InnerError(last.ret) = last.arg.second
        /\ SameTriple(last.ret, last.self)
        /\ last.ret = WithInnerError(last.self, last.arg.second).result
        /\ Error(last.ret)
              = Error(WithInnerError(last.self, last.arg.second).result)
        /\ \A x \in Errors :
              WithInnerError(WithInnerError(last.self, x).result,
                             last.arg.second).result = last.ret

\* Two different causes, neither nil nor the receiver's own, were attached
\* in a row.
C17_Witness ==
    /\ last.op = "WithInnerError.WithInnerError"
    /\ ~IsNil(last.arg.first)
    /\ ~IsNil(last.arg.second)
    /\ last.arg.first # last.arg.second
    /\ last.arg.first # InnerError(last.self)
    /\ InnerError(last.ret) = last.arg.second

\* C18: WithInnerError calls on one base value give independent siblings:
\* a call stores its argument as the cause of a new value with the
\* receiver's code, id and message, and leaves every value constructed
\* before it, the base and the earlier siblings, as it was.
C18_SiblingsIndependent ==
    [][last'.op = "WithInnerError" =>
          /\ Len(locals') = Len(locals) + 1
          /\ \A i \in 1..Len(locals) : locals'[i] = locals[i]
          /\ InnerError(locals'[Len(locals')]) = last'.arg
          /\ SameTriple(locals'[Len(locals')], last'.self)]_vars

\* Two siblings of the base value in the first variable coexist with it:
\* each has the base's code, id and message and its own cause.
C18_Witness ==
    /\ last.op = "WithInnerError"
    /\ Len(locals) = 3
    /\ last.self = locals[1]
    /\ last.ret = locals[3]
    /\ SameTriple(locals[2], locals[1])
    /\ SameTriple(locals[3], locals[1])
    /\ IsNil(InnerError(locals[2]))
    /\ InnerError(locals[3]) = last.arg
    /\ IsException(last.arg)
    /\ ~IsNil(InnerError(locals[1]))
    /\ ~IsException(InnerError(locals[1]))

\* C19: no operation changes the code, id or message of a constructed
\* Exception: a value has the fields it was constructed with (New's
\* arguments, or the receiver's fields for WithInnerError), and every step
\* (New, WithInnerError, Error, the accessors, chain search) leaves
\* the code, id and message of every existing value as they were.
C19_FieldsNeverChange ==
    [][/\ Len(locals') >= Len(locals)
       /\ \A i \in 1..Len(locals) : SameTriple(locals'[i], locals[i])
       /\ (last'.op = "New" /\ Len(locals') > Len(locals)) =>
             /\ Code(locals'[Len(locals')]) = last'.arg.code
             /\ ID(locals'[Len(locals')]) = last'.arg.id
             /\ Message(locals'[Len(locals')]) = last'.arg.message
       /\ (/\ last'.op \in {"WithInnerError", "WithInnerError.WithInnerError"}
           /\ Len(locals') > Len(locals)) =>
             SameTriple(locals'[Len(locals')], last'.self)]_vars

\* An accessor ran on the first value after a second value was derived
\* with an Exception as cause; the first value still has its fields.
C19_Witness ==
    /\ last.op = "Message"
    /\ Len(locals) = 2
    /\ last.self = locals[1]
    /\ IsException(InnerError(locals[2]))
    /\ Code(locals[1]) = 999
    /\ ID(locals[1]) = -1
    /\ last.ret = <<"m">>

\* The characters of the program's strings.
Chars ==
    UNION {{t[k] : k \in 1..Len(t)} :
              t \in Messages \cup Texts \cup {nilAngleString, <<" ">>}}

\* Whether v is a string: a sequence of characters.
IsString(v) == \A k \in 1..Len(v) : v[k] \in Chars

\* Whether v is a value of the error interface.
IsErrorValue(v) == v.kind \in {"nil", "ptr", "ex"}

\* C20: no operation fails.  New returns an Exception for every code, id
\* and message, negative ids, empty messages and out-of-enum codes
\* included; on every Exception the accessors, unwrapping and Error return
\* a value of their result type, Error also when the cause is nil; and
\* WithInnerError returns an Exception for every argument.
C20_EveryOperationReturns ==
    /\ \A c \in Codes, i \in Ids, m \in Messages :
          /\ IsException(New(c, i, m))
          /\ Code(New(c, i, m)) = c
          /\ ID(New(c, i, m)) = i
          /\ Message(New(c, i, m)) = m
    /\ \A e \in Exceptions :
          /\ Code(e) \in Int
          /\ ID(e) \in Int
          /\ IsString(Message(e))
          /\ IsErrorValue(InnerError(e))
          /\ IsErrorValue(ErrorsUnwrap(e))
          /\ IsString(Error(e))
          /\ \A x \in Errors : IsException(WithInnerError(e, x).result)
    /\ last.op = "Error" => IsString(last.ret)

\* Error() was called on an Exception whose cause is nil, made from a value
\* with a negative id, the empty message and an out-of-enum code, and
\* returned a string.
C20_Witness ==
    /\ last.op = "Error"
    /\ IsNil(InnerError(last.self))
    /\ ID(last.self) < 0
    /\ Message(last.self) = << >>
    /\ Code(last.self) = 999
    /\ IsString(last.ret)
    /\ Len(last.ret) = 6

\* C21: under any interleaving of goroutines that read a shared Exception
\* with goroutines that call WithInnerError on it, the shared value stays
\* the value New returned and every read returns what it returns on that
\* value; no read returns a cause that a WithInnerError call set.
C21_ReadersSeeOriginal ==
    last.op = "New" =>
        /\ locals[1] = last.ret
        /\ \A g \in Goroutines :
              (goroutines[g].pc = "done" /\ goroutines[g].op \in Readers) =>
                  /\ goroutines[g].ret = Read(goroutines[g].op, last.ret)
                  /\ goroutines[g].op = "Code" =>
                        goroutines[g].ret = last.arg.code
                  /\ goroutines[g].op = "ID" =>
                        goroutines[g].ret = last.arg.id
                  /\ goroutines[g].op = "Message" =>
                        goroutines[g].ret = last.arg.message
                  /\ goroutines[g].op = "InnerError" =>
                        goroutines[g].ret = InnerError(last.ret)

\* One goroutine returned from WithInnerError with a cause other than the
\* shared value's, and another returned the shared value's own cause from
\* InnerError.
C21_Witness ==
    \E w \in Goroutines, r \in Goroutines :
        /\ goroutines[w].pc = "done"
        /\ goroutines[w].op = "WithInnerError"
        /\ goroutines[w].arg # InnerError(locals[1])
        /\ InnerError(goroutines[w].ret) = goroutines[w].arg
        /\ goroutines[r].pc = "done"
        /\ goroutines[r].op = "InnerError"
        /\ goroutines[r].ret = InnerError(locals[1])
        /\ goroutines[r].ret # goroutines[w].arg

\* C22: a walk down the cause chain by repeated unwrapping goes from an
\* Exception to its cause, from that cause to its cause, and so on, and
\* ends at a nil link: a step of the loop moves to the cause of the current
\* Exception when it has one, and ends the walk otherwise.
C22_WalkFollowsCauses ==
    [][(/\ goroutines[Walker].pc = "walking"
        /\ goroutines'[Walker] # goroutines[Walker]) =>
          IF /\ IsException(goroutines[Walker].e)
             /\ ~IsNil(InnerError(goroutines[Walker].e))
          THEN /\ goroutines'[Walker].pc = "walking"
               /\ goroutines'[Walker].e = InnerError(goroutines[Walker].e)
          ELSE /\ goroutines'[Walker].pc = "ended"
               /\ IsNil(goroutines'[Walker].e)]_vars

\* The calls that read a field of their receiver.
Accessors == {"Code", "ID", "Message", "InnerError"}

\* What the accessor op returns on e.
Accessor(op, e) ==
    CASE op = "Code" -> Code(e)
      [] op = "ID" -> ID(e)
      [] op = "Message" -> Message(e)
      [] op = "InnerError" -> InnerError(e)

\* C23: accessors are pure and idempotent.  Whatever call a step makes
\* (an accessor, Error, WithInnerError, New), every
\* existing instance gives the same Code, ID, Message and InnerError after
\* the step as before it; an accessor call changes no instance and no
\* plain error and returns that value of the instance it was called on.
C23_AccessorsIdempotent ==
    [][/\ \A i \in 1..Len(locals), op \in Accessors :
             Accessor(op, locals'[i]) = Accessor(op, locals[i])
       /\ last'.op \in Accessors =>
             /\ locals' = locals
             /\ errorStrings' = errorStrings
             /\ \E i \in 1..Len(locals) :
                   /\ last'.self = locals[i]
                   /\ last'.ret = Accessor(last'.op, locals'[i])]_vars

\* InnerError was called on the first value after a second value was
\* derived from it with another cause, and returned the first value's own
\* cause.
C23_Witness ==
    /\ last.op = "InnerError"
    /\ Len(locals) = 2
    /\ last.self = locals[1]
    /\ SameTriple(locals[2], locals[1])
    /\ IsNil(InnerError(locals[2]))
    /\ ~IsNil(last.ret)
    /\ last.ret = InnerError(locals[1])

\* C24: New, WithInnerError and the accessors create no new heap
\* object: a step that makes one of these calls leaves the heap of
\* allocated error objects as it was.
C24_NoHeapObjectCreated ==
    [][last'.op \in {"New", "WithInnerError", "WithInnerError.WithInnerError"}
                     \cup Accessors
          => errorStrings' = errorStrings]_vars

\* The messages of a chain of Exceptions, outer to inner, then the text of
\* the plain error at its end if there is one, joined by ": ".
RECURSIVE Joined(_)
Joined(e) ==
    IF IsNil(InnerError(e)) THEN Message(e)
    ELSE IF IsException(InnerError(e))
    THEN Message(e) \o ColonSpace \o Joined(InnerError(e))
    ELSE Message(e) \o ColonSpace \o errorStrings[InnerError(e).addr]

\* Whether the chain below e ends in no cause or in a plain error with a
\* non-empty text.
RECURSIVE EndsPlainly(_)
EndsPlainly(e) ==
    IF IsNil(InnerError(e)) THEN TRUE
    ELSE IF IsException(InnerError(e)) THEN EndsPlainly(InnerError(e))
    ELSE errorStrings[InnerError(e).addr] # << >>

\* C25: rendering is recursive over nested Exceptions: the Error() text of
\* a chain e1 -> ... -> ek that ends in no cause or in a plain error with
\* text t is m1, ..., mk (then t) joined by ": ".
C25_ErrorJoinsChain ==
    (last.op = "Error" /\ EndsPlainly(last.self))
        => last.ret = Joined(last.self)

\* C26: WithInnerError shares the cause without copying or altering it.
\* After outer := a.WithInnerError(c) every variable that held c holds it
\* still (code, id, message and own cause), the text of every plain error
\* is what it was, and outer.InnerError() is c itself: the same Exception
\* value, or the same pointer for a plain error.
C26_CauseSharedUnaltered ==
    [][last'.op = "WithInnerError" =>
          /\ InnerError(last'.ret) = last'.arg
          /\ InnerError(locals'[Len(locals')]) = last'.arg
          /\ \A j \in 1..Len(locals) :
                locals[j] = last'.arg => locals'[j] = last'.arg
          /\ errorStrings' = errorStrings
          /\ last'.arg \in Pointers =>
                /\ InnerError(last'.ret).addr = last'.arg.addr
                /\ errorStrings'[InnerError(last'.ret).addr]
                      = errorStrings[last'.arg.addr]]_vars

\* An Exception with a cause of its own was attached to itself as the
\* cause: the variable still holds the value it held, and the result's
\* cause is that value.
C26_Witness ==
    /\ last.op = "WithInnerError"
    /\ IsException(last.arg)
    /\ last.arg = last.self
    /\ ~IsNil(InnerError(last.arg))
    /\ \E j \in 1..Len(locals) : locals[j] = last.arg
    /\ InnerError(last.ret) = last.arg
    /\ last.ret # last.arg

\* The four named categories.
NamedCategories ==
    {ExTypeIncorrectData, ExTypeLoginRequired, ExTypePermissionDenied,
     ExTypeApplicationFailure}

\* C27: the four named categories are four pairwise distinct integers in
\* declaration order, the values 1 to 4, and the zero value of ExType is
\* none of them; ExType values are equal exactly when their integers are:
\* a value is a named category exactly when it lies in 1..4, and an
\* Exception has the category it was constructed with.
C27_CategoriesDistinctOrdered ==
    /\ ExTypeIncorrectData < ExTypeLoginRequired
    /\ ExTypeLoginRequired < ExTypePermissionDenied
    /\ ExTypePermissionDenied < ExTypeApplicationFailure
    /\ Cardinality(NamedCategories) = 4
    /\ NamedCategories = 1..4
    /\ ExTypeZero \notin NamedCategories
    /\ last.op = "String" =>
          (last.arg \in NamedCategories <=> (1 <= last.arg /\ last.arg <= 4))
    /\ last.op = "New" =>
          /\ Code(last.ret) = ExTypeApplicationFailure <=> last.arg.code = 4
          /\ Code(last.ret) \in NamedCategories
                <=> (1 <= last.arg.code /\ last.arg.code <= 4)

\* The program handled the zero value of ExType, which is no named
\* category, next to an Exception of a named category.
C27_Witness ==
    /\ last.op = "String"
    /\ last.arg = ExTypeZero
    /\ last.arg \notin NamedCategories
    /\ \E e \in Exceptions : Code(e) = ExTypeApplicationFailure

\* Whether following cause links from err, by InnerError(), never comes
\* back to an Exception already passed (seen).
RECURSIVE NoRevisit(_, _)
NoRevisit(err, seen) ==
    IF ~IsException(err) THEN TRUE
    ELSE IF err \in seen THEN FALSE
    ELSE NoRevisit(InnerError(err), seen \cup {err})

\* The number of Exceptions on err's cause chain, err included.
RECURSIVE CauseDepth(_)
CauseDepth(err) ==
    IF ~IsException(err) THEN 0 ELSE 1 + CauseDepth(InnerError(err))

\* C28: the cause graph stays acyclic.  After any sequence of New and
\* WithInnerError calls, e.WithInnerError(e) included, no Exception is
\* reached from itself by following cause links, and every chain has
\* finite depth: the k-th value constructed has at most k Exceptions on its
\* chain, and attaching c gives a chain one longer than c's.
C28_CauseGraphAcyclic ==
    /\ \A k \in 1..Len(locals) :
          /\ NoRevisit(locals[k], {})
          /\ locals[k] \notin Links(locals[k])
          /\ CauseDepth(locals[k]) <= k
    /\ last.op = "WithInnerError" =>
          /\ NoRevisit(last.ret, {})
          /\ last.ret \notin Links(last.ret)
          /\ CauseDepth(last.ret) = 1 + CauseDepth(last.arg)

\* A value whose cause is an Exception was attached to itself as the cause:
\* the result has three Exceptions on its chain and is none of the values
\* below it.
C28_Witness ==
    /\ last.op = "WithInnerError"
    /\ last.arg = last.self
    /\ IsException(InnerError(last.self))
    /\ CauseDepth(last.ret) = 3
    /\ last.ret \notin Links(last.ret)

\* C29: Error() depends on the message and the cause only: two Exceptions
\* with equal message and the same cause render the same, whatever their
\* codes and ids, so neither code nor id shows in the rendered text.
C29_ErrorIgnoresCodeAndID ==
    /\ \A a \in Exceptions, b \in Exceptions :
          (Message(a) = Message(b) /\ InnerError(a) = InnerError(b))
              => Error(a) = Error(b)
    /\ last.op = "Error" =>
          /\ \A b \in Exceptions :
                (/\ Message(b) = Message(last.self)
                 /\ InnerError(b) = InnerError(last.self))
                    => Error(b) = last.ret
          /\ \A c \in Codes, i \in Ids :
                Error([last.self EXCEPT !.code = c, !.id = i]) = last.ret

\* Error() was called on an Exception while another one with the same
\* message and cause and with another code and id exists; it renders the
\* same.
C29_Witness ==
    /\ last.op = "Error"
    /\ \E b \in Exceptions :
          /\ ID(b) # ID(last.self)
          /\ Code(b) # Code(last.self)
          /\ Message(b) = Message(last.self)
          /\ InnerError(b) = InnerError(last.self)
          /\ Error(b) = last.ret

\* Whether p is a prefix of s.
IsPrefix(p, s) == Len(p) <= Len(s) /\ SubSeq(s, 1, Len(p)) = p

\* C30: e.Message() is a prefix of e.Error() for every Exception built by
\* New and WithInnerError: the rendering appends to the message and never
\* alters or truncates it.
C30_MessageIsPrefix ==
    /\ \A e \in Exceptions : IsPrefix(Message(e), Error(e))
    /\ last.op = "Error" => IsPrefix(Message(last.self), last.ret)

\* Error() was called on an Exception with a non-empty message and an
\* Exception as cause; the text is longer than the message and starts with
\* it.
C30_Witness ==
    /\ last.op = "Error"
    /\ Message(last.self) # << >>
    /\ IsException(InnerError(last.self))
    /\ Len(last.ret) > Len(Message(last.self))
    /\ IsPrefix(Message(last.self), last.ret)

====
